---- MODULE Spec2Model ----
(***************************************************************************)
(* Model of the Deepseek completion client (src/src/deepseek_client.py)    *)
(* and of the application retry loop call_api_with_retry                   *)
(* (src/real_estate_scraper.py).                                           *)
(*                                                                         *)
(* Python values are represented as follows.                               *)
(*   - a str is a sequence of one-character strings;                       *)
(*   - an optional dict entry is a sequence of length 0 (absent) or 1;     *)
(*   - an exception is the string naming its class (and message);          *)
(*   - a float that is only passed through is the string of its literal.   *)
(***************************************************************************)
EXTENDS Integers, Sequences, FiniteSets, TLC

(***************************************************************************)
(* Bounds of the model.                                                    *)
(***************************************************************************)
MaxRetries == 2        \* largest `retries` argument tried
MaxCalls == 2          \* requests issued over one client's lifetime
ExchangeSeconds == 1   \* wall-clock time one exchange takes in the model
MaxEdits == 1          \* changes a caller makes to the lists it was handed
MaxClients == 2        \* clients built by callers other than main
MaxTransportRetries == 4   \* largest `max_retries` a client is built with

(***************************************************************************)
(* Strings.                                                                *)
(***************************************************************************)
\* the characters str.strip() removes, those str.isspace() holds of.  A
\* character is written as itself or by its escape where the language
\* has one, and by its code point otherwise ("U+00A0" is the no-break
\* space, one character of the text).
Whitespace ==
    {"\t", "\n", "U+000B", "\f", "\r", "U+001C",
     "U+001D", "U+001E", "U+001F", " ", "U+0085", "U+00A0",
     "U+1680", "U+2000", "U+2001", "U+2002", "U+2003", "U+2004",
     "U+2005", "U+2006", "U+2007", "U+2008", "U+2009", "U+200A",
     "U+2028", "U+2029", "U+202F", "U+205F", "U+3000"}

\* generated texts tried: empty, blank, blank of two kinds, plain, padded
Contents ==
    {<<>>, <<"\t">>, <<" ", "\n">>, <<"x">>, <<"U+00A0", "x", "\r", "\n">>}

RECURSIVE lstrip(_)
lstrip(s) ==
    IF s = <<>> THEN <<>>
    ELSE IF Head(s) \in Whitespace THEN lstrip(Tail(s)) ELSE s

RECURSIVE rstrip(_)
rstrip(s) ==
    IF s = <<>> THEN <<>>
    ELSE IF s[Len(s)] \in Whitespace THEN rstrip(SubSeq(s, 1, Len(s) - 1)) ELSE s

\* a truth test on the text as it came
stripNothing(s) == s

\* str.strip() with no argument
strip(s) == rstrip(lstrip(s))

(***************************************************************************)
(* Messages and models.                                                    *)
(***************************************************************************)
Models == {"deepseek-chat", "deepseek-reasoner"}
DefaultModel == "deepseek-reasoner"
DefaultTemperature == "0.7"
DefaultStream == FALSE
CodeTemperature == "0.2"
RetryTemperature == "0.2"
RetryModel == "deepseek-reasoner"

\* a message text is the sequence of the pieces it is concatenated from
Msg(role, content) == [role |-> role, content |-> content]

\* prompts handed to generate_code
Prompts == {"ping"}

\* conversations a caller passes to chat / call_api_with_retry
MsgSeqs ==
    {<<Msg("user", <<"ping">>)>>,
     <<Msg("system", <<"Generate only Python code">>), Msg("user", <<"task">>)>>}

\* a conversation that puts the task before the instruction
CodeMessagesUserFirst(prompt) ==
    << Msg("user", <<"Generate Python code for the following task:\n\n", prompt>>),
       Msg("system",
           <<"You are a helpful programming assistant. Generate only Python code based on the given description. Include comments and error handling.">>) >>

\* the conversation generate_code builds around its prompt
CodeMessages(prompt) ==
    << Msg("system",
           <<"You are a helpful programming assistant. Generate only Python code based on the given description. Include comments and error handling.">>),
       Msg("user", <<"Generate Python code for the following task:\n\n", prompt>>) >>

(***************************************************************************)
(* Keyword arguments.  A call site f(k1=v1, ..., **opts) is a pair of      *)
(* functions: the arguments written by name and the expanded dictionary.   *)
(***************************************************************************)
ChatParams == {"messages", "model", "temperature", "stream"}
CodeParams == {"prompt", "model"}

Without(f, S) == [k \in (DOMAIN f) \ S |-> f[k]]
Get(f, k, default) == IF k \in DOMAIN f THEN f[k] ELSE default

\* a call that lets the expanded dictionary through
BindNeverCollides(named, opts) == FALSE

\* Python raises TypeError when a keyword is given both by name and in **opts
BindCollides(named, opts) == (DOMAIN named) \cap (DOMAIN opts) # {}
Bind(named, opts) == opts @@ named

\* dict literal {"model": ..., "messages": ..., "temperature": ..., "stream": ...,
\* **kwargs}: a later key replaces an earlier one
BuildPayload(messages, model, temperature, stream, kwargs) ==
    kwargs @@ [k \in ChatParams |->
                 CASE k = "model" -> model
                   [] k = "messages" -> messages
                   [] k = "temperature" -> temperature
                   [] k = "stream" -> stream]

(***************************************************************************)
(* What the endpoint can answer.  A parsed body is the JSON value          *)
(* response.json() returns; dict says whether it is a JSON object.         *)
(***************************************************************************)
Some(v) == <<v>>
None == <<>>

MessageDicts == {[content |-> None]} \cup {[content |-> Some(c)] : c \in Contents}
ChoiceDicts == {[message |-> None]} \cup {[message |-> Some(m)] : m \in MessageDicts}
ChoiceLists == {<<>>} \cup {<<c>> : c \in ChoiceDicts}
UsageDicts == {[total_tokens |-> None], [total_tokens |-> Some(5)]}

Body(choices, usage) == [dict |-> TRUE, choices |-> choices, usage |-> usage]
Plain == <<[message |-> Some([content |-> Some(<<"x">>)])]>>

\* a JSON value that is no object (a list, a string, null)
NoBody == [dict |-> FALSE, choices |-> None, usage |-> None]

\* every shape of `choices` with the usage reported; the empty object; and
\* a plain answer with the usage, or its count, missing
Bodies ==
    {Body(c, Some([total_tokens |-> Some(5)])) :
        c \in {None} \cup {Some(l) : l \in ChoiceLists}}
    \cup {Body(None, None), Body(Some(Plain), None),
          Body(Some(Plain), Some([total_tokens |-> None])), NoBody}

\* exceptions session.post raises once the transport layer gives up
PostErrors == {"ConnectionError", "Timeout"}

\* what session.post hands back: an exception, or a response with a status
\* and a text that does or does not parse as JSON
PostOutcomes ==
    [raised : {TRUE}, err : PostErrors, status : {0}, parses : {FALSE}, body : {NoBody}]
    \cup [raised : {FALSE}, err : {""}, status : {404}, parses : {FALSE}, body : {NoBody}]
    \cup [raised : {FALSE}, err : {""}, status : {200}, parses : {FALSE}, body : {NoBody}]
    \cup [raised : {FALSE}, err : {""}, status : {200}, parses : {TRUE}, body : Bodies]

\* Response.raise_for_status
RaisesForStatus(status) == status >= 400 /\ status < 600

\* result.get("usage", {}).get("total_tokens", 0)
TokensUsed(result) ==
    IF result.usage = None THEN 0
    ELSE IF result.usage[1].total_tokens = None THEN 0
    ELSE result.usage[1].total_tokens[1]

(***************************************************************************)
(* The transport layer: the session's adapter carries                      *)
(* Retry(total=max_retries, backoff_factor=2, status_forcelist=[...],      *)
(* allowed_methods=["POST"], raise_on_status=True, connect=3, read=3,      *)
(* status=3).  Each reissue takes one from `total` and one from the        *)
(* counter of its cause; the policy is exhausted when a counter is below   *)
(* zero.  The answers carry no Retry-After header.                         *)
(***************************************************************************)
DefaultMaxRetries == 3
BackoffFactor == 2
ConnectRetries == 3
ReadRetries == 3
StatusRetries == 3

\* a forcelist that takes 404 for a transient status
StatusForcelistWith404 == {404, 429, 500, 502, 503, 504}

StatusForcelist == {429, 500, 502, 503, 504}

RetryBudget(max_retries) ==
    [total |-> max_retries, connect |-> ConnectRetries, read |-> ReadRetries,
     status |-> StatusRetries]

\* what the endpoint does to one request: the connection fails ("connect"),
\* the read fails ("read"), or a response arrives
WireFault(fault) == [fault |-> fault, status |-> 0, parses |-> FALSE, body |-> NoBody]
WireResponse(status, parses, body) ==
    [fault |-> "", status |-> status, parses |-> parses, body |-> body]

\* Retry.is_retry for a POST, and the errors urlopen hands to increment
IsRetry(answer) == answer.fault # "" \/ answer.status \in StatusForcelist

\* Retry.increment
Increment(budget, answer) ==
    [budget EXCEPT !.total = @ - 1,
                   ![IF answer.fault = "" THEN "status" ELSE answer.fault] = @ - 1]

\* a policy that allows one reissue more than its counters
IsExhaustedLate(budget) ==
    budget.total < -1 \/ budget.connect < -1 \/ budget.read < -1 \/ budget.status < -1

\* Retry.is_exhausted
IsExhausted(budget) ==
    budget.total < 0 \/ budget.connect < 0 \/ budget.read < 0 \/ budget.status < 0

\* what HTTPAdapter.send raises for the MaxRetryError of an exhausted policy
GiveUpError(answer) == IF answer.fault = "" THEN "RetryError" ELSE "ConnectionError"

\* Retry.get_backoff_time after n consecutive failed requests: nothing
\* after the first, then backoff_factor * 2 ** (n - 1), far below the
\* library's cap here
BackoffSeconds(n) == IF n <= 1 THEN 0 ELSE BackoffFactor * 2 ^ (n - 1)

(***************************************************************************)
(* DeepseekClient.chat after the payload is built: the exchange, the       *)
(* record and the return value.  record is None when nothing is appended.  *)
(***************************************************************************)
ChatRaise(e) == [kind |-> "raise", err |-> e, body |-> None, record |-> None]

\* a record that names the default model whatever model was asked for
CallRecordDefaultModel(timestamp, model, messages, duration, status, tokens) ==
    [timestamp |-> timestamp, model |-> DefaultModel, messages |-> messages,
     duration |-> duration, status |-> status, tokens_used |-> tokens]

CallRecord(timestamp, model, messages, duration, status, tokens) ==
    [timestamp |-> timestamp, model |-> model, messages |-> messages,
     duration |-> duration, status |-> status, tokens_used |-> tokens]

\* an exchange that records the call before it looks at the status
ChatExchangeRecordsFirst(messages, model, post, start_time, end_time) ==
    IF post.raised THEN ChatRaise(post.err)
    ELSE LET record == Some(CallRecord(end_time, model, messages,
                                       end_time - start_time, post.status, 0))
         IN IF RaisesForStatus(post.status)
            THEN [ChatRaise("HTTPError") EXCEPT !.record = record]
            ELSE IF ~post.parses
            THEN [ChatRaise("JSONDecodeError") EXCEPT !.record = record]
            ELSE IF ~post.body.dict THEN ChatRaise("AttributeError")
            ELSE [kind |-> "return", err |-> "", body |-> Some(post.body),
                  record |-> Some(CallRecord(end_time, model, messages,
                                             end_time - start_time, post.status,
                                             TokensUsed(post.body)))]

ChatExchange(messages, model, post, start_time, end_time) ==
    IF post.raised THEN ChatRaise(post.err)
    ELSE IF RaisesForStatus(post.status) THEN ChatRaise("HTTPError")
    ELSE IF ~post.parses THEN ChatRaise("JSONDecodeError")
    ELSE IF ~post.body.dict THEN ChatRaise("AttributeError")
    ELSE [kind |-> "return", err |-> "", body |-> Some(post.body),
          record |-> Some(CallRecord(end_time, model, messages,
                                     end_time - start_time, post.status,
                                     TokensUsed(post.body)))]

(***************************************************************************)
(* call_api_with_retry: the validation of one response and the loop.       *)
(***************************************************************************)
ErrInvalid == "ValueError: Respuesta invalida de la API"
ErrEmpty == "ValueError: La API retorno una respuesta vacia"

\* truth value of a dict: empty is false
Truthy(response) == response.choices # None \/ response.usage # None

Checked(kind, err, content) == [kind |-> kind, err |-> err, content |-> content]

\* a validation that reports every unusable response as an empty one
ValidateOneError(response) ==
    IF /\ response.choices # None
       /\ response.choices[1] # <<>>
       /\ response.choices[1][1].message # None
       /\ response.choices[1][1].message[1].content # None
       /\ strip(response.choices[1][1].message[1].content[1]) # <<>>
    THEN Checked("return", "", response.choices[1][1].message[1].content)
    ELSE Checked("raise", ErrEmpty, None)

\* the outcome of validating the dict chat returned
Validate(response) ==
    IF ~Truthy(response) \/ response.choices = None
    THEN Checked("raise", ErrInvalid, None)
    ELSE IF response.choices[1] = <<>>
    THEN Checked("raise", "IndexError", None)
    ELSE IF response.choices[1][1].message = None
    THEN Checked("raise", "KeyError: message", None)
    ELSE IF response.choices[1][1].message[1].content = None
    THEN Checked("raise", "KeyError: content", None)
    ELSE LET content == response.choices[1][1].message[1].content[1]
         IN IF strip(content) = <<>>
            THEN Checked("raise", ErrEmpty, Some(content))
            ELSE Checked("return", "", Some(content))

\* time.sleep(5 * (attempt + 1)) when attempt > 0
SleepSeconds(attempt) == IF attempt > 0 THEN 5 * (attempt + 1) ELSE 0

\* a loop whose handler never sees the last pass
IsLastAttemptNever(attempt, retries) == attempt = retries

\* `if attempt == retries - 1: raise`
IsLastAttempt(attempt, retries) == attempt = retries - 1

(***************************************************************************)
(* Whole calls on the client, as functions of the call site, of what the   *)
(* endpoint answers and of the time the call starts.                       *)
(***************************************************************************)
NoKwargs == <<>>

Done(sent, kind, err, body, record, text) ==
    [sent |-> sent, kind |-> kind, err |-> err, body |-> body,
     record |-> record, text |-> text]

\* client.chat(**named, **opts); named always holds "messages"; session.post
\* hands back `post` at end_time
ChatCallTimed(named, opts, post, start_time, end_time) ==
    IF BindCollides(named, opts)
    THEN Done(None, "raise", "TypeError", None, None, None)
    ELSE LET args == Bind(named, opts)
             messages == args["messages"]
             model == Get(args, "model", DefaultModel)
             payload == BuildPayload(messages, model,
                                     Get(args, "temperature", DefaultTemperature),
                                     Get(args, "stream", DefaultStream),
                                     Without(args, ChatParams))
             res == ChatExchange(messages, model, post, start_time, end_time)
         IN Done(Some(payload), res.kind, res.err, res.body, res.record, None)

\* the call when the session needs one request
ChatCall(named, opts, post, now) ==
    ChatCallTimed(named, opts, post, now, now + ExchangeSeconds)

\* response["choices"][0]["message"]["content"]
FirstContent(response) ==
    IF response.choices = None THEN Checked("raise", "KeyError: choices", None)
    ELSE IF response.choices[1] = <<>> THEN Checked("raise", "IndexError", None)
    ELSE IF response.choices[1][1].message = None
    THEN Checked("raise", "KeyError: message", None)
    ELSE IF response.choices[1][1].message[1].content = None
    THEN Checked("raise", "KeyError: content", None)
    ELSE Checked("return", "", response.choices[1][1].message[1].content)

\* client.generate_code(prompt, **named, **opts); named is over {"model"}
GenerateCodeCall(prompt, named, opts, post, now) ==
    IF BindCollides(("prompt" :> prompt) @@ named, opts)
    THEN Done(None, "raise", "TypeError", None, None, None)
    ELSE LET args == Bind(named, opts)
             inner == ChatCall(("messages" :> CodeMessages(prompt))
                                 @@ ("model" :> Get(args, "model", DefaultModel))
                                 @@ ("temperature" :> CodeTemperature),
                               Without(args, CodeParams), post, now)
         IN IF inner.kind = "raise" THEN inner
            ELSE LET c == FirstContent(inner.body[1])
                 IN Done(inner.sent, c.kind, c.err, inner.body, inner.record, c.content)

(***************************************************************************)
(* State.                                                                  *)
(***************************************************************************)
VARIABLES
    call_history,   \* DeepseekClient.call_history
    clock,          \* time.time()
    calls,          \* requests the client has handed to its session
    last,           \* the latest call on the client: its call site, what it sent,
                    \* what the endpoint answered and how the call ended
    pc,             \* call_api_with_retry: "idle", "loop" or "done"
    attempt,        \* the loop variable
    retries,        \* the argument
    messages,       \* the argument
    trace,          \* per attempt so far: the endpoint's answer and how the pass ended
    sleeps,         \* the delays slept so far
    outcome,        \* how the invocation ended
    mark,           \* len(client.call_history) when the invocation began
    edits,          \* changes the caller has made to lists it shares with the client
    main,           \* main(): where it is and the files it has written
    shared,         \* the message list the caller keeps after passing it to
                    \* chat, and the places in call_history of the records
                    \* whose `messages` is that list
    client,         \* the DeepseekClient instance, if one was built: the key it
                    \* was given, the environment's key and the attributes set
    thr,            \* per thread that runs call_api_with_retry on the client: its
                    \* locals and its place in the loop
    wire            \* the session: the max_retries it was built with, and for its
                    \* latest post whether it is still open, what is left of
                    \* the retry policy, the requests made, the time it began
                    \* and the endpoint's latest answer

vars == <<call_history, clock, calls, last, pc, attempt, retries, messages,
          trace, sleeps, outcome, mark, edits, shared, main, client, thr, wire>>

\* what belongs to the client's surroundings
sideVars == <<edits, shared, main, client, thr, wire>>

retryVars == <<pc, attempt, retries, messages, trace, sleeps, outcome, mark>>

NoCall ==
    [op |-> "none", named |-> <<>>, opts |-> <<>>, post |-> None, sent |-> None,
     kind |-> "none", err |-> "", body |-> None, record |-> None, text |-> None,
     view |-> None]

\* post is None when the call ended before any request was made
Observed(op, named, opts, post, done) ==
    [op |-> op, named |-> named, opts |-> opts,
     post |-> IF done.sent = None THEN None ELSE Some(post), view |-> None] @@ done

Pending == [kind |-> "pending", err |-> "", content |-> None]

\* main() has not been called; no DeepseekClient() has been evaluated
NoMain == [at |-> "none", step |-> 0, files |-> {}, clients |-> 0]

\* the caller keeps no list it passed to chat
NoList == [list |-> None, records |-> {}]

\* self.session with its retry_strategy
Session(max_retries) ==
    [max_retries |-> max_retries, open |-> FALSE,
     left |-> RetryBudget(max_retries), requests |-> 0, started |-> 0,
     answer |-> [fault |-> "", status |-> 0]]

\* truth value of an Optional[str]
KeyGiven(key) == key # None /\ key[1] # ""

\* api_key or os.environ.get('DEEPSEEK_API_KEY')
KeyOr(api_key, env) == IF KeyGiven(api_key) THEN api_key ELSE env

\* a constructor that takes any key
KeyRejectedNever(key) == FALSE

\* if not self.api_key: raise ValueError(...)
KeyRejected(key) == ~KeyGiven(key)

ErrNoKey ==
    "ValueError: API key must be provided or set in DEEPSEEK_API_KEY environment variable"

\* the attributes __init__ sets, in order
ClientAttrs == <<"api_key", "logger", "session", "timeout", "call_history">>

\* no DeepseekClient(...) has been evaluated
NoClient(env) ==
    [state |-> "none", env |-> env, arg |-> None, api_key |-> None,
     attrs |-> {}, err |-> ""]

\* DeepseekClient(api_key=arg) in an environment whose DEEPSEEK_API_KEY is env
NewClient(arg, env) ==
    LET key == KeyOr(arg, env)
    IN IF KeyRejected(key)
       THEN [state |-> "failed", env |-> env, arg |-> arg, api_key |-> key,
             attrs |-> {ClientAttrs[1]}, err |-> ErrNoKey]
       ELSE [state |-> "ready", env |-> env, arg |-> arg, api_key |-> key,
             attrs |-> {ClientAttrs[i] : i \in 1..Len(ClientAttrs)}, err |-> ""]

Threads == {1, 2}

\* a thread that has not called call_api_with_retry
IdleThread ==
    [pc |-> "idle", attempt |-> 0, retries |-> 0, messages |-> <<>>,
     trace |-> <<>>, outcome |-> Pending, held |-> None, seen |-> 0,
     started |-> 0, due |-> 0]

\* the state around a client built as DeepseekClient(api_key="k", max_retries)
Constructed(max_retries) ==
    /\ call_history = <<>>
    /\ clock = 0
    /\ calls = 0
    /\ last = NoCall
    /\ pc = "idle"
    /\ attempt = 0
    /\ retries = 0
    /\ messages = <<>>
    /\ trace = <<>>
    /\ sleeps = <<>>
    /\ outcome = Pending
    /\ mark = 0
    /\ edits = 0
    /\ shared = NoList
    /\ main = NoMain
    /\ client = NewClient(Some("k"), None)
    /\ thr = [t \in Threads |-> IdleThread]
    /\ wire = Session(max_retries)

Init == Constructed(DefaultMaxRetries)

\* a history that keeps the newest record first
RecordedNewestFirst(history, done) ==
    IF done.record = None THEN history ELSE <<done.record[1]>> \o history

\* a history that takes every record twice
RecordedTwice(history, done) ==
    IF done.record = None THEN history
    ELSE Append(Append(history, done.record[1]), done.record[1])

\* self.call_history.append(call_record)
Recorded(history, done) ==
    IF done.record = None THEN history ELSE Append(history, done.record[1])

\* call sites tried
NamedExtras == {NoKwargs, ("model" :> "deepseek-chat") @@ ("temperature" :> "0.9")}
Options == {NoKwargs, ("max_tokens" :> 64), ("temperature" :> "1.0"), ("stream" :> TRUE)}

\* client.chat(messages=m, ...)
ChatWith(m) ==
    /\ pc = "idle"
    /\ calls < MaxCalls
    /\ \E named \in NamedExtras, opts \in Options, post \in PostOutcomes :
         LET site == ("messages" :> m) @@ named
             done == ChatCall(site, opts, post, clock)
         IN /\ last' = Observed("chat", site, opts, post, done)
            /\ call_history' = Recorded(call_history, done)
            /\ calls' = IF done.sent = None THEN calls ELSE calls + 1
            /\ clock' = IF done.sent = None THEN clock ELSE clock + ExchangeSeconds
    /\ UNCHANGED <<retryVars, edits, main, client, thr, wire>>

\* chat on a list the caller does not keep
Chat ==
    /\ \E m \in MsgSeqs : ChatWith(m)
    /\ UNCHANGED shared

GenerateCode ==
    /\ pc = "idle"
    /\ calls < MaxCalls
    /\ \E prompt \in Prompts, named \in {NoKwargs, ("model" :> "deepseek-chat")},
          opts \in Options, post \in PostOutcomes :
         LET done == GenerateCodeCall(prompt, named, opts, post, clock)
         IN /\ last' = Observed("generate_code", ("prompt" :> prompt) @@ named,
                                 opts, post, done)
            /\ call_history' = Recorded(call_history, done)
            /\ calls' = IF done.sent = None THEN calls ELSE calls + 1
            /\ clock' = IF done.sent = None THEN clock ELSE clock + ExchangeSeconds
    /\ UNCHANGED <<retryVars, sideVars>>

\* return self.call_history
GetCallHistory ==
    /\ pc = "idle"
    /\ last' = [NoCall EXCEPT !.op = "get_call_history", !.kind = "return",
                              !.view = Some(call_history)]
    /\ UNCHANGED <<call_history, clock, calls, retryVars, sideVars>>

(***************************************************************************)
(* call_api_with_retry(client, messages, description, retries).            *)
(***************************************************************************)
RetriesTried == (-1)..MaxRetries

Max(a, b) == IF a >= b THEN a ELSE b

Start ==
    /\ pc = "idle"
    /\ \E m \in MsgSeqs, r \in RetriesTried :
         /\ calls + Max(r, 0) <= MaxCalls
         /\ messages' = m
         /\ retries' = r
    /\ pc' = "loop"
    /\ attempt' = 0
    /\ trace' = <<>>
    /\ sleeps' = <<>>
    /\ outcome' = Pending
    /\ mark' = Len(call_history)
    /\ UNCHANGED <<call_history, clock, calls, last, sideVars>>

\* the try body of one pass: chat, then the validation of what it returned
AttemptResult(done) ==
    IF done.kind = "raise" THEN Checked("raise", done.err, None)
    ELSE Validate(done.body[1])

\* a loop that gives up at the first failure
AfterAttemptGivesUp(checked, n, budget) ==
    IF checked.kind = "return" THEN "return" ELSE "raise"

\* a loop that returns only from its last pass
AfterAttemptKeepsGoing(checked, n, budget) ==
    IF ~IsLastAttempt(n, budget) THEN "continue"
    ELSE IF checked.kind = "return" THEN "return" ELSE "raise"

\* what follows one pass of the loop
AfterAttempt(checked, n, budget) ==
    IF checked.kind = "return" THEN "return"
    ELSE IF IsLastAttempt(n, budget) THEN "raise"
    ELSE "continue"

\* one pass of `for attempt in range(retries)`
Attempt ==
    /\ pc = "loop"
    /\ attempt < retries
    /\ \E post \in PostOutcomes :
         LET delay == SleepSeconds(attempt)
             site == ("messages" :> messages) @@ ("model" :> RetryModel)
                       @@ ("temperature" :> RetryTemperature)
             done == ChatCall(site, NoKwargs, post, clock + delay)
             checked == AttemptResult(done)
             after == AfterAttempt(checked, attempt, retries)
         IN /\ sleeps' = IF attempt > 0 THEN Append(sleeps, delay) ELSE sleeps
            /\ last' = Observed("chat", site, NoKwargs, post, done)
            /\ call_history' = Recorded(call_history, done)
            /\ calls' = calls + 1
            /\ clock' = clock + delay + ExchangeSeconds
            /\ trace' = Append(trace, [post |-> post, chat |-> done.kind] @@ checked)
            /\ pc' = IF after = "continue" THEN "loop" ELSE "done"
            /\ attempt' = IF after = "continue" THEN attempt + 1 ELSE attempt
            /\ outcome' = IF after = "continue" THEN Pending ELSE checked
    /\ UNCHANGED <<retries, messages, mark, sideVars>>

\* the range is exhausted: `return None`
LoopExit ==
    /\ pc = "loop"
    /\ attempt >= retries
    /\ pc' = "done"
    /\ outcome' = [kind |-> "return_none", err |-> "", content |-> None]
    /\ UNCHANGED <<call_history, clock, calls, last, attempt, retries, messages,
                   trace, sleeps, mark, sideVars>>

\* the caller takes the result; the invocation's locals are gone
Return ==
    /\ pc = "done"
    /\ pc' = "idle"
    /\ attempt' = 0
    /\ retries' = 0
    /\ messages' = <<>>
    /\ trace' = <<>>
    /\ sleeps' = <<>>
    /\ outcome' = Pending
    /\ mark' = 0
    /\ UNCHANGED <<call_history, clock, calls, last, sideVars>>

Next ==
    \/ Chat
    \/ GenerateCode
    \/ GetCallHistory
    \/ Start
    \/ Attempt
    \/ LoopExit
    \/ Return

Spec == Init /\ [][Next]_vars

(***************************************************************************)
(* The caller's side.  Python hands lists over by reference: the list      *)
(* get_call_history returns is the store itself, and the `messages` entry  *)
(* of a record is the list the caller passed to chat.  A change the caller *)
(* makes to such a list is a change of the object the client holds.        *)
(***************************************************************************)
Reverse(seq) == [i \in 1..Len(seq) |-> seq[Len(seq) + 1 - i]]

\* a record no call produced
ForgedRecord == CallRecord(0, "forged", <<>>, 0, 0, 0)

\* what a caller can do to a list of records it holds: append, delete,
\* reorder, or change a field of a record
ViewEditKinds(view) ==
    IF view = <<>> THEN {"append"} ELSE {"append", "pop", "reverse", "setitem"}

ViewEdit(kind, view) ==
    CASE kind = "append" -> Append(view, ForgedRecord)
      [] kind = "pop" -> SubSeq(view, 1, Len(view) - 1)
      [] kind = "reverse" -> Reverse(view)
      [] kind = "setitem" -> [view EXCEPT ![1].tokens_used = -1]

\* where the records at `places` of a list of n records are after the edit:
\* the records are the same objects, moved or dropped with the list's entries
PlacesAfter(kind, n, places) ==
    CASE kind = "pop" -> places \ {n}
      [] kind = "reverse" -> {n + 1 - i : i \in places}
      [] OTHER -> places

\* `return self.call_history`: the returned list and the stored list are one
\* object, so the store after the caller's edit is the edited list
StoreBehindView(history, edited) == edited

\* what a caller can do to the message list it passed to chat
MessageEdits(m) == {Append(m, Msg("user", <<"later">>)), <<>>}

\* `"messages": messages`: the record holds the caller's list itself, so the
\* record after the caller's edit holds the edited list
RecordHoldingList(record, edited) == [record EXCEPT !.messages = edited]

\* every record whose `messages` is the edited list shows the edit
HistoryHoldingList(history, places, edited) ==
    [i \in 1..Len(history) |->
        IF i \in places THEN RecordHoldingList(history[i], edited)
        ELSE history[i]]

\* the place of the record the call just appended, if it appended one
PlaceAppended(before, after) ==
    IF Len(after) > Len(before) THEN {Len(after)} ELSE {}

\* m = [...]; client.chat(messages=m, ...): a new list, which the caller keeps
CallerChat ==
    /\ \E m \in MsgSeqs :
         /\ ChatWith(m)
         /\ shared' = [list |-> Some(m),
                       records |-> PlaceAppended(call_history, call_history')]

\* client.chat(messages=m, ...) once more on the list the caller kept
CallerChatAgain ==
    /\ shared.list # None
    /\ ChatWith(shared.list[1])
    /\ shared' = [shared EXCEPT
                    !.records = @ \cup PlaceAppended(call_history, call_history')]

\* the caller changes the list get_call_history just gave it
CallerEditsView ==
    /\ pc = "idle"
    /\ last.op = "get_call_history"
    /\ edits < MaxEdits
    /\ edits' = edits + 1
    /\ UNCHANGED <<main, client, thr, wire>>
    /\ \E kind \in ViewEditKinds(call_history) :
         LET edited == ViewEdit(kind, call_history)
         IN /\ Len(edited) <= MaxCalls + 1
            /\ call_history' = StoreBehindView(call_history, edited)
            /\ shared' = [shared EXCEPT
                            !.records = PlacesAfter(kind, Len(call_history), @)]
    /\ last' = [last EXCEPT !.op = "edit_view"]
    /\ UNCHANGED <<clock, calls, retryVars>>

\* the caller changes the list it passed to chat(messages): m.append(later)
\* or m.clear()
CallerEditsMessages ==
    /\ pc = "idle"
    /\ shared.list # None
    /\ edits < MaxEdits
    /\ edits' = edits + 1
    /\ UNCHANGED <<main, client, thr, wire>>
    /\ \E edited \in MessageEdits(shared.list[1]) :
         /\ call_history' =
                HistoryHoldingList(call_history, shared.records, edited)
         /\ shared' = [shared EXCEPT !.list = Some(edited)]
    /\ last' = [last EXCEPT !.op = "edit_messages"]
    /\ UNCHANGED <<clock, calls, retryVars>>

\* a caller that uses the client directly
NextCaller ==
    \/ Chat
    \/ GenerateCode
    \/ GetCallHistory
    \/ CallerChat
    \/ CallerChatAgain
    \/ CallerEditsView
    \/ CallerEditsMessages

SpecCaller == Init /\ [][NextCaller]_vars

(***************************************************************************)
(* The client over the wire: a post is the session's exchange with the     *)
(* endpoint, one request at a time, and the client is built with any       *)
(* max_retries.                                                            *)
(***************************************************************************)
Retryable ==
    {WireResponse(429, FALSE, NoBody), WireResponse(503, FALSE, NoBody),
     WireFault("connect"), WireFault("read")}

\* a body of one choice with the given content and the usage reported
Completion(content) ==
    Body(Some(<<[message |-> Some([content |-> Some(content)])]>>),
         Some([total_tokens |-> Some(5)]))

Final ==
    {WireResponse(404, FALSE, NoBody),
     WireResponse(200, TRUE, Completion(<<"x">>)),
     WireResponse(200, TRUE, Completion(<<" ">>))}

Answers == Retryable \cup Final

InitTransport == \E n \in 0..MaxTransportRetries : Constructed(n)

\* call_api_with_retry(client, messages, description, retries) on such a
\* client
WireStart ==
    /\ pc = "idle"
    /\ \E r \in 0..MaxRetries :
         /\ calls + r <= MaxCalls
         /\ retries' = r
    /\ messages' = <<Msg("user", <<"ping">>)>>
    /\ pc' = "loop"
    /\ attempt' = 0
    /\ trace' = <<>>
    /\ sleeps' = <<>>
    /\ outcome' = Pending
    /\ mark' = Len(call_history)
    /\ UNCHANGED <<call_history, clock, calls, last, sideVars>>

\* the post of the pass under way: the one that is open, or a new one that
\* begins after the pass's sleep with the whole policy
Post ==
    IF wire.open THEN wire
    ELSE [Session(wire.max_retries) EXCEPT
             !.open = TRUE, !.started = clock + SleepSeconds(attempt)]

\* time.time() when the next answer arrives
Arrival == (IF wire.open THEN clock ELSE Post.started) + ExchangeSeconds

\* the endpoint answers a request of the pass's chat call with something the
\* policy reissues after: the session waits and sends the request again
WireReissue ==
    /\ pc = "loop"
    /\ attempt < retries
    /\ \E a \in Answers :
         LET left == Increment(Post.left, a)
         IN /\ IsRetry(a)
            /\ ~IsExhausted(left)
            /\ wire' = [Post EXCEPT !.left = left, !.requests = @ + 1,
                                    !.answer = [fault |-> a.fault,
                                                status |-> a.status]]
            /\ clock' = Arrival + BackoffSeconds(Post.requests + 1)
    /\ sleeps' = IF ~wire.open /\ attempt > 0
                 THEN Append(sleeps, SleepSeconds(attempt)) ELSE sleeps
    /\ UNCHANGED <<call_history, calls, last, pc, attempt, retries, messages,
                   trace, outcome, mark, edits, shared, main, client, thr>>

\* what session.post hands back when `a` answers its last request
Handed(left, a) ==
    IF IsRetry(a)
    THEN [raised |-> TRUE, err |-> GiveUpError(a), status |-> 0,
          parses |-> FALSE, body |-> NoBody]
    ELSE [raised |-> FALSE, err |-> "", status |-> a.status,
          parses |-> a.parses, body |-> a.body]

\* the last request of the pass's chat call is answered: the policy is
\* exhausted or the answer is not one to reissue after, and the pass ends
WireAttempt ==
    /\ pc = "loop"
    /\ attempt < retries
    /\ \E a \in Answers :
         LET left == IF IsRetry(a) THEN Increment(Post.left, a) ELSE Post.left
             post == Handed(left, a)
             site == ("messages" :> messages) @@ ("model" :> RetryModel)
                       @@ ("temperature" :> RetryTemperature)
             done == ChatCallTimed(site, NoKwargs, post, Post.started, Arrival)
             checked == AttemptResult(done)
             after == AfterAttempt(checked, attempt, retries)
         IN /\ IsRetry(a) => IsExhausted(left)
            /\ wire' = [Post EXCEPT !.open = FALSE, !.left = left,
                                    !.requests = @ + 1,
                                    !.answer = [fault |-> a.fault,
                                                status |-> a.status]]
            /\ clock' = Arrival
            /\ last' = Observed("chat", site, NoKwargs, post, done)
            /\ call_history' = Recorded(call_history, done)
            /\ calls' = calls + 1
            /\ trace' = Append(trace, [post |-> post, chat |-> done.kind,
                                       requests |-> Post.requests + 1]
                                        @@ checked)
            /\ pc' = IF after = "continue" THEN "loop" ELSE "done"
            /\ attempt' = IF after = "continue" THEN attempt + 1 ELSE attempt
            /\ outcome' = IF after = "continue" THEN Pending ELSE checked
    /\ sleeps' = IF ~wire.open /\ attempt > 0
                 THEN Append(sleeps, SleepSeconds(attempt)) ELSE sleeps
    /\ UNCHANGED <<retries, messages, mark, edits, shared, main, client, thr>>

NextTransport ==
    \/ WireStart
    \/ WireReissue
    \/ WireAttempt
    \/ LoopExit
    \/ Return

SpecTransport == InitTransport /\ [][NextTransport]_vars

(***************************************************************************)
(* Construction.  Each of get_initial_structure,                           *)
(* get_data_processing_functions and get_visualization_code builds its own *)
(* client with DeepseekClient() and hands it to call_api_with_retry with   *)
(* the default retries; main calls the three in turn; a caller can also    *)
(* build a client with a key of its own.                                   *)
(***************************************************************************)
DefaultRetries == 3

\* time.sleep(5) between main's calls
BetweenSeconds == 5

ApiKeys == {None, Some(""), Some("k")}
EnvKeys == {None, Some(""), Some("e")}

\* the system message of the three requests
SystemText == "Generate only Python code with basic types and docstrings."

\* the task text of get_initial_structure, as written in the source
StructureText ==
    "\n"
    \o "            Create a Python class structure for a real estate scraper:\n"
    \o "            \n"
    \o "            1. RealEstateScraper class with:\n"
    \o "               - Search parameters (location, property type, sources)\n"
    \o "               - Basic scraping methods\n"
    \o "               - Error handling\n"
    \o "            \n"
    \o "            Keep it simple, focus on structure.\n"
    \o "            "

\* the task text of get_data_processing_functions, as written in the source
ProcessingText ==
    "\n"
    \o "            Create these data processing functions:\n"
    \o "            \n"
    \o "            def limpiar_precio(texto: str) -> float:\n"
    \o "                '''Clean and convert price text to float'''\n"
    \o "            \n"
    \o "            def calcular_m2(texto: str) -> int:\n"
    \o "                '''Extract and convert area to integer'''\n"
    \o "            \n"
    \o "            def geocodificar(direccion: str) -> tuple[float, float]:\n"
    \o "                '''Convert address to coordinates'''\n"
    \o "            "

\* the task text of get_visualization_code, as written in the source
VisualizationText ==
    "\n"
    \o "            Create visualization functions:\n"
    \o "            \n"
    \o "            1. create_heatmap(data, location) using folium\n"
    \o "            2. plot_price_histogram(prices) using matplotlib\n"
    \o "            3. plot_scatter(x, y, data) using seaborn\n"
    \o "            \n"
    \o "            Basic structure only.\n"
    \o "            "

\* messages = [{"role": "system", ...}, {"role": "user", ...}]
CodeRequest(text) == << Msg("system", <<SystemText>>), Msg("user", <<text>>) >>

StructureMessages == CodeRequest(StructureText)
ProcessingMessages == CodeRequest(ProcessingText)
VisualizationMessages == CodeRequest(VisualizationText)

\* main's calls in order: the conversation each sends and the file main
\* writes its result to
MainCalls ==
    << [messages |-> StructureMessages, file |-> "real_estate_structure.py"],
       [messages |-> ProcessingMessages, file |-> "data_processing.py"],
       [messages |-> VisualizationMessages, file |-> "visualizations.py"] >>

ParamsFile == "search_params.json"

InitConstruct ==
    \E env \in EnvKeys :
        /\ call_history = <<>>
        /\ clock = 0
        /\ calls = 0
        /\ last = NoCall
        /\ pc = "idle"
        /\ attempt = 0
        /\ retries = 0
        /\ messages = <<>>
        /\ trace = <<>>
        /\ sleeps = <<>>
        /\ outcome = Pending
        /\ mark = 0
        /\ edits = 0
        /\ shared = NoList
        /\ main = NoMain
        /\ client = NoClient(env)
        /\ thr = [t \in Threads |-> IdleThread]
        /\ wire = Session(DefaultMaxRetries)

\* DeepseekClient(...) evaluated: a new instance, with a session and an
\* empty call_history of its own, takes the place of the one before
Built(built) ==
    /\ client' = built
    /\ call_history' = <<>>
    /\ calls' = 0
    /\ last' = NoCall
    /\ wire' = Session(DefaultMaxRetries)

\* client = DeepseekClient(api_key=arg)
Construct ==
    /\ pc = "idle"
    /\ main.at = "none"
    /\ main.clients < MaxClients
    /\ \E arg \in ApiKeys : Built(NewClient(arg, client.env))
    /\ main' = [main EXCEPT !.clients = @ + 1]
    /\ UNCHANGED <<clock, retryVars, edits, shared, thr>>

\* client = DeepseekClient(); return call_api_with_retry(client, msgs, ...):
\* the constructor, then call_api_with_retry up to its first pass; a
\* constructor that raises ends the function
CallFunction(msgs) ==
    /\ pc = "idle"
    /\ LET built == NewClient(None, client.env)
       IN /\ Built(built)
          /\ IF built.state = "failed"
             THEN /\ pc' = "done"
                  /\ outcome' = Checked("raise", built.err, None)
                  /\ UNCHANGED <<retries, messages>>
             ELSE /\ pc' = "loop"
                  /\ outcome' = Pending
                  /\ retries' = DefaultRetries
                  /\ messages' = msgs
    /\ attempt' = 0
    /\ trace' = <<>>
    /\ sleeps' = <<>>
    /\ mark' = 0
    /\ UNCHANGED <<clock, edits, shared, thr>>

\* a caller other than main calls one of the functions
CalledAlone ==
    /\ main.at = "none"
    /\ main.clients < MaxClients
    /\ main' = [main EXCEPT !.clients = @ + 1]

GetInitialStructure ==
    /\ CalledAlone
    /\ CallFunction(StructureMessages)

GetDataProcessingFunctions ==
    /\ CalledAlone
    /\ CallFunction(ProcessingMessages)

GetVisualizationCode ==
    /\ CalledAlone
    /\ CallFunction(VisualizationMessages)

\* the function returns to a caller other than main
ReturnToCaller ==
    /\ main.at # "running"
    /\ Return

\* `if estructura:` and the like
Written(result) ==
    result.kind = "return" /\ result.content # None /\ result.content[1] # <<>>

\* main() calls the next of its three functions: the first when the program
\* starts, the others after the sleep
MainCall ==
    /\ \/ main.at = "none" /\ client.state = "none"
       \/ main.at = "between"
    /\ CallFunction(MainCalls[main.step + 1].messages)
    /\ main' = [main EXCEPT !.at = "running", !.step = @ + 1,
                            !.clients = @ + 1]

\* the function main called is over.  An exception is logged and raised
\* again, which ends main; a result is written to its file when it is not
\* empty, and main sleeps before the next call or, after the last, writes
\* the search parameters
MainReturn ==
    /\ main.at = "running"
    /\ pc = "done"
    /\ LET files == IF Written(outcome)
                    THEN main.files \cup {MainCalls[main.step].file}
                    ELSE main.files
       IN IF outcome.kind = "raise"
          THEN /\ main' = [main EXCEPT !.at = "raised"]
               /\ clock' = clock
          ELSE IF main.step < Len(MainCalls)
          THEN /\ main' = [main EXCEPT !.at = "between", !.files = files]
               /\ clock' = clock + BetweenSeconds
          ELSE /\ main' = [main EXCEPT !.at = "end",
                                       !.files = files \cup {ParamsFile}]
               /\ clock' = clock
    /\ pc' = "idle"
    /\ attempt' = 0
    /\ retries' = 0
    /\ messages' = <<>>
    /\ trace' = <<>>
    /\ sleeps' = <<>>
    /\ outcome' = Pending
    /\ mark' = 0
    /\ UNCHANGED <<call_history, calls, last, edits, shared, client, thr, wire>>

NextConstruct ==
    \/ Construct
    \/ GetInitialStructure
    \/ GetDataProcessingFunctions
    \/ GetVisualizationCode
    \/ MainCall
    \/ MainReturn
    \/ Attempt
    \/ ReturnToCaller

SpecConstruct == InitConstruct /\ [][NextConstruct]_vars

(***************************************************************************)
(* Two threads, each in its own invocation of call_api_with_retry, on one  *)
(* client.  The loop and chat keep everything in locals but for the clock, *)
(* the session and self.call_history; a step ends where the thread touches *)
(* the shared list, and list.append is one indivisible operation.  A       *)
(* thread inside time.sleep or session.post waits while the others run, so *)
(* the threads' waits overlap.                                             *)
(***************************************************************************)
ThreadMessages(t) == <<Msg("user", <<IF t = 1 THEN "first" ELSE "second">>)>>

\* what session.post hands the threads
ThreadPosts ==
    {[raised |-> TRUE, err |-> "ConnectionError", status |-> 0, parses |-> FALSE,
      body |-> NoBody],
     [raised |-> FALSE, err |-> "", status |-> 404, parses |-> FALSE,
      body |-> NoBody],
     [raised |-> FALSE, err |-> "", status |-> 200, parses |-> TRUE,
      body |-> Completion(<<" ">>)],
     [raised |-> FALSE, err |-> "", status |-> 200, parses |-> TRUE,
      body |-> Completion(<<"x">>)]}

\* an append that writes at the place the thread saw the list end
AppendedAtSeen(history, seen, record) == Append(SubSeq(history, 1, seen), record)

\* self.call_history.append(call_record): the list as it is now, whatever
\* its length was when the thread built the record
Appended(history, seen, record) == Append(history, record)

\* the thread's locals after a pass that ended with `checked`
AfterPass(th, post, done, checked) ==
    LET after == AfterAttempt(checked, th.attempt, th.retries)
    IN [th EXCEPT
           !.trace = Append(@, [post |-> post, chat |-> done.kind,
                                record |-> done.record] @@ checked),
           !.pc = IF after = "continue" THEN "loop" ELSE "done",
           !.attempt = IF after = "continue" THEN @ + 1 ELSE @,
           !.outcome = IF after = "continue" THEN Pending ELSE checked,
           !.held = None]

\* thread t calls call_api_with_retry(client, messages, description, r)
ThreadStart(t) ==
    /\ thr[t].pc = "idle"
    /\ \E r \in 1..MaxRetries :
         thr' = [thr EXCEPT ![t] = [IdleThread EXCEPT !.pc = "loop", !.retries = r,
                                                      !.messages = ThreadMessages(t)]]
    /\ UNCHANGED <<call_history, clock, calls, last, retryVars, edits, shared, main, client, wire>>

\* thread t is inside time.sleep or inside session.post
Waiting(t) == thr[t].pc \in {"sleep", "post"}

\* time passes for every thread alike: the wait that ends next is the one
\* no other thread's wait ends before
EndsNext(t) == \A u \in Threads : Waiting(u) => thr[u].due >= thr[t].due

\* thread t calls session.post: the request leaves at time.time() and the
\* answer is due one exchange later
Posting(th, now) ==
    [th EXCEPT !.pc = "post", !.started = now, !.due = now + ExchangeSeconds]

\* thread t begins a pass: from the second pass on it enters
\* time.sleep(5 * (attempt + 1)), on the first it goes straight to the call
ThreadEnter(t) ==
    /\ thr[t].pc = "loop"
    /\ LET th == thr[t]
       IN IF th.attempt > 0
          THEN /\ thr' = [thr EXCEPT ![t] =
                            [th EXCEPT !.pc = "sleep",
                                       !.due = clock + SleepSeconds(th.attempt)]]
               /\ calls' = calls
          ELSE /\ thr' = [thr EXCEPT ![t] = Posting(th, clock)]
               /\ calls' = calls + 1
    /\ UNCHANGED <<call_history, clock, last, retryVars, edits, shared, main,
                   client, wire>>

\* thread t's sleep is over and it calls session.post; the other threads
\* ran meanwhile
ThreadWake(t) ==
    /\ thr[t].pc = "sleep"
    /\ EndsNext(t)
    /\ clock' = Max(clock, thr[t].due)
    /\ thr' = [thr EXCEPT ![t] = Posting(thr[t], clock')]
    /\ calls' = calls + 1
    /\ UNCHANGED <<call_history, last, retryVars, edits, shared, main, client,
                   wire>>

\* session.post hands thread t its answer and chat builds the record; a
\* chat call that raises ends the pass here
ThreadPost(t) ==
    /\ thr[t].pc = "post"
    /\ EndsNext(t)
    /\ clock' = Max(clock, thr[t].due)
    /\ \E post \in ThreadPosts :
         LET th == thr[t]
             site == ("messages" :> th.messages) @@ ("model" :> RetryModel)
                       @@ ("temperature" :> RetryTemperature)
             done == ChatCallTimed(site, NoKwargs, post, th.started, clock')
         IN thr' = [thr EXCEPT ![t] =
                      IF done.record = None
                      THEN AfterPass(th, post, done, AttemptResult(done))
                      ELSE [th EXCEPT !.pc = "append",
                                      !.held = Some([post |-> post, done |-> done]),
                                      !.seen = Len(call_history)]]
    /\ UNCHANGED <<call_history, calls, last, retryVars, edits, shared, main,
                   client, wire>>

\* thread t appends the record it built, chat returns and the loop checks
\* what it returned
ThreadAppend(t) ==
    /\ thr[t].pc = "append"
    /\ LET th == thr[t]
           done == th.held[1].done
       IN /\ call_history' = Appended(call_history, th.seen, done.record[1])
          /\ thr' = [thr EXCEPT ![t] =
                       AfterPass(th, th.held[1].post, done, AttemptResult(done))]
    /\ UNCHANGED <<clock, calls, last, retryVars, edits, shared, main, client, wire>>

NextThreads ==
    \/ \E t \in Threads : ThreadStart(t)
    \/ \E t \in Threads : ThreadEnter(t)
    \/ \E t \in Threads : ThreadWake(t)
    \/ \E t \in Threads : ThreadPost(t)
    \/ \E t \in Threads : ThreadAppend(t)

SpecThreads == Init /\ [][NextThreads]_vars

(***************************************************************************)
(* Properties.  The endpoint's answers are classified here from the        *)
(* answers themselves, not from what the code made of them.                *)
(***************************************************************************)
TransportFailure(post) ==
    post.raised \/ (post.status >= 400 /\ post.status < 600) \/ ~post.parses

HasContent(post) ==
    /\ ~TransportFailure(post)
    /\ post.body.dict
    /\ post.body.choices # None
    /\ post.body.choices[1] # <<>>
    /\ post.body.choices[1][1].message # None
    /\ post.body.choices[1][1].message[1].content # None

ContentOf(post) == post.body.choices[1][1].message[1].content[1]

Blank(text) == \A i \in 1..Len(text) : text[i] \in Whitespace

Malformed(post) == ~TransportFailure(post) /\ ~HasContent(post)
EmptyContent(post) == HasContent(post) /\ Blank(ContentOf(post))
Good(post) == HasContent(post) /\ ~Blank(ContentOf(post))

TransportErrors ==
    {"ConnectionError", "Timeout", "RetryError", "HTTPError", "JSONDecodeError"}

\* the error class of section 7 an exception stands for
ErrorClass(err) ==
    IF err \in TransportErrors THEN "TransportError"
    ELSE IF err = ErrEmpty THEN "EmptyContent"
    ELSE "MalformedResponse"

AnswerClass(post) ==
    IF TransportFailure(post) THEN "TransportError"
    ELSE IF Malformed(post) THEN "MalformedResponse"
    ELSE IF EmptyContent(post) THEN "EmptyContent"
    ELSE "Success"

Attempts == Len(trace)
LastEntry == trace[Len(trace)]

\* C1: when every attempt of an invocation with retries >= 1 met a retryable
\* failure (transport error, malformed response or empty content), the
\* invocation ends only after exactly `retries` chat calls, and it ends by
\* raising the error of the last attempt, of the class of the last answer.
C1_ExhaustedRaisesLastError ==
    (pc = "done" /\ retries >= 1 /\ \A i \in 1..Attempts : ~Good(trace[i].post))
        => /\ Attempts = retries
           /\ Len(sleeps) = retries - 1
           /\ outcome.kind = "raise"
           /\ outcome.err = LastEntry.err
           /\ ErrorClass(outcome.err) = AnswerClass(LastEntry.post)

C1_Witness ==
    /\ pc = "done"
    /\ retries = 2
    /\ Attempts = 2
    /\ TransportFailure(trace[1].post)
    /\ EmptyContent(trace[2].post)
    /\ outcome.kind = "raise"
    /\ outcome.err = ErrEmpty

\* C2: along a run of transport failures the invocation stops only at the
\* end of its budget; when the first retries - 1 attempts failed at the
\* transport and attempt number `retries` got non-blank content, that
\* content is returned, after exactly `retries` chat calls.
C2_SucceedsOnLastAttempt ==
    (pc = "done" /\ retries >= 1 /\ Attempts >= 1
       /\ \A i \in 1..(Attempts - 1) : TransportFailure(trace[i].post))
        => /\ Attempts <= retries
           /\ (TransportFailure(LastEntry.post) => Attempts = retries)
           /\ (Attempts = retries /\ Good(LastEntry.post)
                 => /\ outcome.kind = "return"
                    /\ outcome.content = Some(ContentOf(LastEntry.post))
                    /\ Len(sleeps) = retries - 1)

C2_Witness ==
    /\ pc = "done"
    /\ retries = MaxRetries
    /\ Attempts = MaxRetries
    /\ \A i \in 1..(Attempts - 1) : TransportFailure(trace[i].post)
    /\ Good(LastEntry.post)
    /\ outcome.kind = "return"
    /\ outcome.content = Some(<<"U+00A0", "x", "\r", "\n">>)

\* C3 (as claimed): every finished invocation, whatever its budget, either
\* returned a text that is not blank or raised an error.
C3_NeverSilentNone ==
    pc = "done" =>
        \/ outcome.kind = "raise" /\ outcome.err # ""
        \/ /\ outcome.kind = "return"
           /\ outcome.content # None
           /\ ~Blank(outcome.content[1])

\* C4: the first attempt whose answer carries non-blank content ends the
\* invocation: it is the last entry of the trace, its content is what is
\* returned, and only the sleeps before it were slept.
C4_SuccessEndsTheLoop ==
    \A i \in 1..Attempts :
        Good(trace[i].post)
            => /\ i = Attempts
               /\ pc = "done"
               /\ outcome.kind = "return"
               /\ outcome.content = Some(ContentOf(trace[i].post))
               /\ Len(sleeps) = i - 1

C4_Witness ==
    /\ pc = "done"
    /\ retries = 2
    /\ Attempts = 1
    /\ Good(trace[1].post)
    /\ outcome.kind = "return"
    /\ sleeps = <<>>

(***************************************************************************)
(* Properties of chat.                                                     *)
(***************************************************************************)
\* a step in which chat handed a request to the session
ChatStep == calls' = calls + 1 /\ last'.op = "chat"
ClientStep == calls' = calls + 1 /\ last'.op \in {"chat", "generate_code"}

\* the model and the conversation a call site asks for
CallModel(l) ==
    IF "model" \in DOMAIN l.named THEN l.named["model"]
    ELSE IF "model" \in DOMAIN l.opts THEN l.opts["model"]
    ELSE DefaultModel

IsPrefix(s, t) == Len(s) <= Len(t) /\ SubSeq(t, 1, Len(s)) = s

\* C5: a chat call that the endpoint answers with non-blank content appends
\* exactly one record, the last one, carrying the call's model, messages and
\* HTTP status, and returns the endpoint's body, content included, as it came.
C5_SuccessfulChatRecordsOnce ==
    [][(ChatStep /\ Good(last'.post[1]))
         => /\ Len(call_history') = Len(call_history) + 1
            /\ IsPrefix(call_history, call_history')
            /\ LET record == call_history'[Len(call_history')]
               IN /\ record.model = CallModel(last')
                  /\ record.messages = last'.named["messages"]
                  /\ record.status = last'.post[1].status
            /\ last'.kind = "return"
            /\ last'.body = Some(last'.post[1].body)
            /\ last'.body[1].choices[1][1].message[1].content[1]
                 = ContentOf(last'.post[1])]_vars

C5_Witness ==
    /\ last.op = "chat"
    /\ pc = "idle"
    /\ last.kind = "return"
    /\ Good(last.post[1])
    /\ CallModel(last) = "deepseek-chat"
    /\ Len(call_history) = 2
    /\ call_history[2].model = "deepseek-chat"

\* C6: every step leaves the earlier call history as a prefix of the later one.
C6_HistoryOnlyGrows ==
    [][IsPrefix(call_history, call_history')]_vars

C6_Witness ==
    /\ Len(call_history) = 2
    /\ call_history[1].model = "deepseek-chat"
    /\ pc = "done"
    /\ last.kind = "return"

\* the exception a failed exchange raises
RaisedBy(post) ==
    IF post.raised THEN post.err
    ELSE IF post.status >= 400 /\ post.status < 600 THEN "HTTPError"
    ELSE "JSONDecodeError"

\* C7: a chat call (made directly, by generate_code or by the retry loop)
\* whose exchange fails at the transport raises that failure's error and
\* leaves the call history as it was.
C7_TransportErrorLeavesHistory ==
    [][(ClientStep /\ TransportFailure(last'.post[1]))
         => /\ call_history' = call_history
            /\ last'.kind = "raise"
            /\ last'.err = RaisedBy(last'.post[1])
            /\ last'.body = None]_vars

C7_Witness ==
    /\ last.op = "chat"
    /\ last.kind = "raise"
    /\ last.err = "HTTPError"
    /\ last.post # None
    /\ Len(call_history) = 1

\* C8 (as claimed): chat itself fails with a malformed-response error when
\* the parsed body lacks `choices` or the nested message content.
C8_ChatRejectsMalformed ==
    (last.op = "chat" /\ last.post # None /\ Malformed(last.post[1]))
        => /\ last.kind = "raise"
           /\ ErrorClass(last.err) = "MalformedResponse"

\* C8 (amended): chat returns a parsed JSON object that lacks a required
\* field unchanged, and records the call; it is the retry loop that fails
\* the attempt, with ErrInvalid when `choices` is missing and with an
\* IndexError or KeyError when the nested content is, never with a transport
\* error or the empty-content error.
C8_MalformedRejectedByCaller ==
    /\ (last.op = "chat" /\ last.post # None /\ Malformed(last.post[1])
          /\ last.post[1].body.dict)
         => /\ last.kind = "return"
            /\ last.body = Some(last.post[1].body)
            /\ last.record # None
    /\ \A i \in 1..Attempts :
         (Malformed(trace[i].post) /\ trace[i].post.body.dict)
             => /\ trace[i].chat = "return"
                /\ trace[i].kind = "raise"
                /\ trace[i].err \notin TransportErrors
                /\ trace[i].err # ErrEmpty
                /\ (trace[i].post.body.choices = None => trace[i].err = ErrInvalid)
                /\ (trace[i].post.body.choices # None
                      => trace[i].err \in {"IndexError", "KeyError: message",
                                           "KeyError: content"})

C8_Witness ==
    /\ pc = "loop"
    /\ Attempts = 1
    /\ trace[1].post.body.dict
    /\ trace[1].post.body.choices = None
    /\ trace[1].post.body.usage # None
    /\ trace[1].err = ErrInvalid
    /\ last.kind = "return"
    /\ Len(call_history) = 1

\* C9: an attempt whose content is empty or all whitespace fails with the
\* empty-content error and uses up one attempt: the loop either goes on to
\* the next attempt or, on the last one, ends by raising; blank content is
\* never what an invocation returns.
C9_BlankContentIsNeverSuccess ==
    /\ \A i \in 1..Attempts :
         EmptyContent(trace[i].post)
             => /\ trace[i].kind = "raise"
                /\ trace[i].err = ErrEmpty
                /\ \/ i < Attempts
                   \/ pc = "loop" /\ attempt = i /\ i < retries
                   \/ pc = "done" /\ i = retries /\ outcome.kind = "raise"
                        /\ outcome.err = ErrEmpty
    /\ outcome.kind = "return" => ~Blank(outcome.content[1])

C9_Witness ==
    /\ pc = "done"
    /\ retries = 2
    /\ Attempts = 2
    /\ EmptyContent(trace[1].post)
    /\ ContentOf(trace[1].post) = <<" ", "\n">>
    /\ Good(trace[2].post)
    /\ outcome.kind = "return"

(***************************************************************************)
(* Properties of the request body.                                         *)
(***************************************************************************)
\* the fields a call gives chat by name
FixedFields(l) ==
    IF l.op = "chat" THEN l.named
    ELSE ("messages" :> CodeMessages(l.named["prompt"]))
           @@ ("model" :> Get(l.named, "model", DefaultModel))
           @@ ("temperature" :> CodeTemperature)

DefaultOf(k) ==
    CASE k = "model" -> DefaultModel
      [] k = "temperature" -> DefaultTemperature
      [] k = "stream" -> DefaultStream

Repeats(l) == (DOMAIN FixedFields(l)) \cap (DOMAIN l.opts) # {}

\* C10 (as claimed): whenever the open options hold a reserved key, a request
\* is sent and its body carries the fixed value for that key.
C10_ExplicitFieldWins ==
    (last.op \in {"chat", "generate_code"} /\ (DOMAIN last.opts) \cap ChatParams # {})
        => /\ last.sent # None
           /\ \A k \in (DOMAIN last.opts) \cap ChatParams :
                last.sent[1][k] = IF k \in DOMAIN FixedFields(last)
                                  THEN FixedFields(last)[k] ELSE DefaultOf(k)

\* C10 (amended): a call whose options repeat a field that is given by name
\* is rejected with a TypeError before any request is built; otherwise the
\* body sent carries every field given by name, the option's value for a
\* reserved key given only in the options, the default for the rest, and
\* the remaining options as they are.
C10_CollisionIsRejected ==
    last.op \in {"chat", "generate_code"}
        => IF Repeats(last)
           THEN /\ last.kind = "raise"
                /\ last.err = "TypeError"
                /\ last.sent = None
                /\ last.post = None
                /\ last.record = None
           ELSE /\ last.sent # None
                /\ DOMAIN last.sent[1] = ChatParams \cup DOMAIN last.opts
                /\ \A k \in ChatParams :
                     last.sent[1][k] =
                        IF k \in DOMAIN FixedFields(last) THEN FixedFields(last)[k]
                        ELSE IF k \in DOMAIN last.opts THEN last.opts[k]
                        ELSE DefaultOf(k)
                /\ \A k \in (DOMAIN last.opts) \ ChatParams :
                     last.sent[1][k] = last.opts[k]

C10_Witness ==
    /\ last.op = "generate_code"
    /\ "temperature" \in DOMAIN last.opts
    /\ last.kind = "raise"
    /\ last.err = "TypeError"
    /\ last.sent = None
    /\ Len(call_history) = 1

(***************************************************************************)
(* Properties of generate_code.                                            *)
(***************************************************************************)
\* C17: generate_code(prompt), called with no options, makes one request
\* whose messages are the system instruction followed by the user message
\* that contains the prompt, at temperature 0.2; when the response has a
\* first choice with content, it returns that content string and nothing
\* else, and the call's record is the newest of the history.
C17_GenerateCodeSpecializesChat ==
    (last.op = "generate_code" /\ last.opts = NoKwargs)
        => /\ last.sent # None /\ last.post # None
           /\ Len(last.sent[1]["messages"]) = 2
           /\ last.sent[1]["messages"][1].role = "system"
           /\ last.sent[1]["messages"][2].role = "user"
           /\ last.sent[1]["messages"][2].content[2] = last.named["prompt"]
           /\ last.sent[1]["temperature"] = "0.2"
           /\ last.sent[1]["stream"] = FALSE
           /\ last.sent[1]["model"] = CallModel(last)
           /\ DOMAIN last.sent[1] = ChatParams
           /\ HasContent(last.post[1])
                => /\ last.kind = "return"
                   /\ last.text = Some(ContentOf(last.post[1]))
                   /\ last.record # None
                   /\ call_history # <<>>
                   /\ call_history[Len(call_history)] = last.record[1]
                   /\ last.record[1].messages = last.sent[1]["messages"]

C17_Witness ==
    /\ last.op = "generate_code"
    /\ last.opts = NoKwargs
    /\ last.kind = "return"
    /\ last.text = Some(<<"U+00A0", "x", "\r", "\n">>)
    /\ Len(call_history) = 2
    /\ call_history[2].model = "deepseek-chat"

(***************************************************************************)
(* Properties of the delays.                                               *)
(***************************************************************************)
\* C19 (as claimed): nothing is slept before the first attempt, and the
\* delay before attempt number i + 1 is 5 seconds times i: 5, 10, 15.
C19_FiveTenFifteen ==
    /\ Len(sleeps) <= Max(Attempts - 1, 0)
    /\ \A i \in 1..Len(sleeps) : sleeps[i] = 5 * i

(***************************************************************************)
(* Properties of the records one invocation leaves.                        *)
(***************************************************************************)
\* the attempts so far whose chat call got a response it could return
ReturnedAttempts ==
    {i \in 1..Attempts :
        /\ ~TransportFailure(trace[i].post)
        /\ trace[i].post.body.dict}

\* C20: when an invocation of call_api_with_retry has finished, by return or
\* by raise, the records it added to the client's history are as many as its
\* attempts whose chat call returned, the ones the loop then rejected for a
\* missing `choices` or an empty content included, and they are those
\* attempts' records in order; attempts that failed at the transport add none.
C20_RecordsMatchReturnedChats ==
    pc = "done"
        => /\ Len(call_history) - mark = Cardinality(ReturnedAttempts)
           /\ ReturnedAttempts = {i \in 1..Attempts : trace[i].chat = "return"}
           /\ \A k \in (mark + 1)..Len(call_history) :
                call_history[k].model = RetryModel
           /\ (\A i \in 1..Attempts : EmptyContent(trace[i].post) \/ Good(trace[i].post))
                => Len(call_history) - mark = Attempts
           /\ (\A i \in 1..Attempts : TransportFailure(trace[i].post))
                => Len(call_history) = mark

C20_Witness ==
    /\ pc = "done"
    /\ outcome.kind = "return"
    /\ Attempts = 2
    /\ EmptyContent(trace[1].post)
    /\ Good(trace[2].post)
    /\ mark = 0
    /\ Len(call_history) = 2

(***************************************************************************)
(* Properties of what the client shares with its caller.                   *)
(***************************************************************************)
\* C11 (as claimed): whatever the caller has done to the view that
\* get_call_history returned, the stored call history is still what it was
\* when the view was taken.
C11_ViewEditsLeaveStore ==
    last.op = "edit_view" => call_history = last.view[1]

\* C12 (as claimed): every operation other than an edit of the returned
\* view, the caller changing the message list it passed to chat included,
\* leaves each record of the call history with the fields it had.
C12_RecordKeepsItsMessages ==
    [][(edits' = edits \/ last'.op = "edit_messages")
          => IsPrefix(call_history, call_history')]_vars

(***************************************************************************)
(* Properties of the transport layer.  An answer is classified by what the *)
(* endpoint sent, not by what the policy made of it.                       *)
(***************************************************************************)
RetryableStatuses == {429, 500, 502, 503, 504}

RetryableAnswer(a) == a.fault # "" \/ a.status \in RetryableStatuses

\* the latest chat call is over and its session made requests for it
Posted == ~wire.open /\ wire.requests > 0 /\ last.op = "chat" /\ last.post # None

\* no request of the latest post met a connection or a read error
OnlyStatuses == wire.left.connect = ConnectRetries /\ wire.left.read = ReadRetries

RECURSIVE RequestsUpTo(_)
RequestsUpTo(i) == IF i = 0 THEN 0 ELSE trace[i].requests + RequestsUpTo(i - 1)

\* C13 (as claimed): a chat call whose requests met only retryable statuses
\* and then a 200 with a valid body returns and appends exactly one record,
\* and the session gives up on retryable statuses only when they came more
\* than max_retries times in a row: k statuses with k <= max_retries are
\* always followed by one more request.
C13_StatusRetriesUpToMax ==
    (Posted /\ OnlyStatuses)
        => /\ (wire.answer.status = 200 /\ Good(last.post[1]))
                => /\ last.kind = "return"
                   /\ last.record # None
                   /\ call_history # <<>>
                   /\ call_history[Len(call_history)] = last.record[1]
           /\ last.err = "RetryError" => wire.requests > wire.max_retries

\* C14: a 404 is never reissued after: the answer ends the post and chat
\* raises HTTPError without a record; and an invocation of the loop with
\* retries > 1 whose every attempt met a 404 at its first request has made
\* exactly `retries` requests, one per attempt, when it ends by raising.
C14_NotFoundOncePerAttempt ==
    /\ (wire.answer.status = 404)
         => /\ Posted
            /\ last.kind = "raise"
            /\ last.err = "HTTPError"
            /\ last.record = None
    /\ (/\ pc = "done"
        /\ retries > 1
        /\ \A i \in 1..Attempts :
             trace[i].post.status = 404 /\ trace[i].requests = 1)
         => /\ Attempts = retries
            /\ RequestsUpTo(Attempts) = retries
            /\ Len(call_history) = mark
            /\ outcome.kind = "raise"
            /\ outcome.err = "HTTPError"

C14_Witness ==
    /\ pc = "done"
    /\ retries = 2
    /\ Attempts = 2
    /\ \A i \in 1..2 : trace[i].post.status = 404 /\ trace[i].requests = 1
    /\ outcome.err = "HTTPError"
    /\ wire.answer.status = 404

\* C15: a session never makes more than max_retries + 1 requests for one
\* post; and a chat call whose every request met a retryable status or a
\* connection or read error ends by raising a transport error, hands back no
\* result and appends no record.
C15_ExhaustedCallRaises ==
    /\ wire.requests <= wire.max_retries + 1
    /\ (Posted /\ RetryableAnswer(wire.answer))
         => /\ last.kind = "raise"
            /\ last.err \in {"RetryError", "ConnectionError"}
            /\ ErrorClass(last.err) = "TransportError"
            /\ last.body = None
            /\ last.record = None
            /\ (pc \in {"loop", "done"} /\ Attempts > 0)
                 => /\ trace[Attempts].chat = "raise"
                    /\ Len(call_history) - mark
                         = Cardinality({i \in 1..Attempts : trace[i].chat = "return"})

C15_Witness ==
    /\ Posted
    /\ wire.max_retries = 3
    /\ wire.requests = 4
    /\ wire.answer.status = 503
    /\ last.err = "RetryError"
    /\ pc = "loop"

(***************************************************************************)
(* Properties of construction.                                             *)
(***************************************************************************)
\* C16: a constructor given no api_key, or an empty one, in an environment
\* without DEEPSEEK_API_KEY fails with the configuration error: no session
\* and no call history are set, no request is made and the loop makes no
\* attempt, neither then nor later; and a constructor fails only for want of
\* a key.
C16_NoKeyNoClient ==
    /\ (client.state # "none" /\ client.arg \in {None, Some("")} /\ client.env = None)
         => client.state = "failed"
    /\ client.state = "failed"
         => /\ client.err = ErrNoKey
            /\ client.api_key \in {None, Some("")}
            /\ client.attrs \cap {"session", "call_history"} = {}
            /\ call_history = <<>>
            /\ calls = 0
            /\ wire.requests = 0
            /\ last = NoCall
            /\ Attempts = 0
            /\ sleeps = <<>>
            /\ pc # "loop"
            /\ pc = "done" => outcome = Checked("raise", ErrNoKey, None)

C16_Witness ==
    /\ client.state = "failed"
    /\ client.arg = None
    /\ client.env = None
    /\ pc = "done"
    /\ outcome.kind = "raise"
    /\ Attempts = 0

(***************************************************************************)
(* Properties of two invocations on one client.                            *)
(***************************************************************************)
\* the records thread t has appended, in the order it built them
RECURSIVE OwnAppended(_, _)
OwnAppended(t, n) ==
    IF n = 0 THEN <<>>
    ELSE LET e == thr[t].trace[n]
         IN IF e.record = None THEN OwnAppended(t, n - 1)
            ELSE Append(OwnAppended(t, n - 1), e.record[1])

\* the records of the history that hold thread t's messages
RECURSIVE OwnInHistory(_, _)
OwnInHistory(t, n) ==
    IF n = 0 THEN <<>>
    ELSE IF call_history[n].messages = ThreadMessages(t)
    THEN Append(OwnInHistory(t, n - 1), call_history[n])
    ELSE OwnInHistory(t, n - 1)

\* C18: under every interleaving of two invocations on one client, each
\* invocation goes on exactly while its own answers are unusable, ends with
\* the content of its own first good answer or, after `retries` attempts,
\* with the error of its own last answer; and every record a thread's chat
\* call built is in the history, once, the thread's records in the order the
\* thread appended them, and nothing else is.
C18_ThreadsDoNotInterfere ==
    /\ \A t \in Threads :
         LET th == thr[t]
             n == Len(th.trace)
         IN /\ n <= th.retries
            /\ th.attempt = (IF th.pc = "done" THEN n - 1 ELSE n)
            /\ \A i \in 1..(n - 1) : ~Good(th.trace[i].post)
            /\ (th.pc \in {"loop", "append"} /\ n > 0) => ~Good(th.trace[n].post)
            /\ th.pc = "done"
                 => IF Good(th.trace[n].post)
                    THEN th.outcome
                           = Checked("return", "", Some(ContentOf(th.trace[n].post)))
                    ELSE /\ n = th.retries
                         /\ th.outcome.kind = "raise"
                         /\ ErrorClass(th.outcome.err) = AnswerClass(th.trace[n].post)
            /\ \A i \in 1..n :
                 (th.trace[i].record # None) <=> ~TransportFailure(th.trace[i].post)
            /\ OwnInHistory(t, Len(call_history)) = OwnAppended(t, n)
    /\ \A k \in 1..Len(call_history) :
         \E t \in Threads : call_history[k].messages = ThreadMessages(t)

C18_Witness ==
    /\ \A t \in Threads : thr[t].pc = "done" /\ thr[t].outcome.kind = "return"
    /\ Len(call_history) = 3
    /\ call_history[1].messages = ThreadMessages(2)
    /\ call_history[2].messages = ThreadMessages(1)
    /\ call_history[3].messages = ThreadMessages(2)
    /\ call_history[2].timestamp < call_history[1].timestamp

(***************************************************************************)
(* Properties of the work one invocation causes, over both retry tiers.    *)
(***************************************************************************)
\* the loop and the session take their steps
FairTransport ==
    SpecTransport /\ WF_vars(WireReissue \/ WireAttempt \/ LoopExit)

\* an invocation that has begun comes to its end, whatever the endpoint
\* answers
Terminates == (pc = "loop") ~> (pc = "done")

\* at every moment of an invocation the chat calls made are at most
\* `retries` and the requests made, the open post's included, at most
\* `retries` times (1 + max_retries); with retries >= 1 it ends by
\* returning or raising
BoundedWork ==
    pc \in {"loop", "done"}
        => /\ (pc = "done" /\ retries >= 1) => outcome.kind \in {"return", "raise"}
           /\ Attempts <= Max(retries, 0)
           /\ RequestsUpTo(Attempts) + (IF wire.open THEN wire.requests ELSE 0)
                <= Max(retries, 0) * (1 + wire.max_retries)

\* C21 (as claimed): an invocation that has ended has ended in Success (it
\* returned the content) or in Failed (it raised), after at most `retries`
\* chat calls and at most `retries` times (1 + max_retries) requests.
C21_EndsInSuccessOrFailedWithinBudget ==
    pc = "done"
        => /\ outcome.kind \in {"return", "raise"}
           /\ Attempts <= retries
           /\ RequestsUpTo(Attempts) <= retries * (1 + wire.max_retries)

====
